---- MODULE Spec2Model ----
(***************************************************************************)
(* The re-authentication coordinator of @haakco/api-client-interceptors:   *)
(* createAuthInterceptor(config).onRejected and the module-level guard     *)
(* isCheckingAuth (authInterceptor.ts).                                    *)
(*                                                                         *)
(* JavaScript runs the handlers on one thread, so a handler runs without   *)
(* interruption from one suspension point (await) to the next.  Each       *)
(* action below is one such run: the entry of onRejected up to its first   *)
(* await or its return, the resumption after the awaited verifier          *)
(* dispatch, and the resumption after the awaited teardown dispatch.  The  *)
(* settling of the two dispatched promises belongs to the host's store and *)
(* is an action of the environment.                                        *)
(*                                                                         *)
(* processStoreError and isNetworkError (errorHandler.ts) are pure         *)
(* functions: they are operators here, applied by the one action of a      *)
(* second specification, ClassifySpec, to an input drawn from Inputs.      *)
(***************************************************************************)
EXTENDS Naturals, Sequences, FiniteSets

\* Number of failure-hook invocations a behaviour may hold.
MaxCalls == 3

Calls == 1..MaxCalls

(***************************************************************************)
(* Values of the environment.                                              *)
(***************************************************************************)

\* error.response?.status: NoResponse stands for a failure without response.
\* Status codes are written as tokens, so that "no status" is a value too.
NoResponse == "none"
Unauthorized == "401"
Statuses == {NoResponse, Unauthorized, "500"}

\* error.config?.url, cut into tokens; NoUrl stands for an absent config or url.
NoUrl == << >>
UrlUsers == <<"/api", "/users">>
UrlMeCheck == <<"/api", "/me", "/check">>
UrlAuthVerify == <<"/auth", "/verify">>
Urls == {NoUrl, UrlUsers, UrlMeCheck, UrlAuthVerify}

\* '/api/me/checkout': not the verifier's request, but a url in which the
\* default pattern occurs.
UrlMeCheckout == <<"/api", "/me", "/check", "out">>

\* The failures a hook is invoked with.  The hook reads the url of a 401
\* only, so the other statuses come with fewer urls.
Errors ==
    {e \in [status : Statuses, url : Urls \cup {UrlMeCheckout}] :
        e.status # Unauthorized => e.url \in {NoUrl, UrlMeCheck}}

\* window.location.pathname; NoWindow stands for typeof window === 'undefined'.
NoWindow == "no-window"
Locations == {NoWindow, "/dashboard", "/login", "/auth/signin"}

\* The interceptors the host created with createAuthInterceptor: "default"
\* leaves both options to the defaults of the destructuring, "custom" sets
\* both.  "legacy" is the one createAuthInterceptorLegacy returns.
DefaultAuthCheckPattern == <<"/me", "/check">>
DefaultLoginPath == "/login"
Interceptors == {"default", "custom"}
Legacy == "legacy"

\* An interceptor created with a configuration object that has the keys
\* dispatch, navigate and isAuthenticated (and no store, checkAuthAction or
\* authCheckPattern): the destructuring of lines 45-51 leaves store and
\* checkAuthAction undefined and takes the defaults for the rest.
HostCallbacks == "callbacks"

\* The failures such a host's hook is invoked with: failures that carry no
\* request configuration, and a 401 of the verifier's own request.
CallbackErrors ==
    {e \in Errors : e.url = NoUrl \/ (e.status = Unauthorized /\ e.url = UrlMeCheck)}
Config(i) ==
    IF i = "custom"
    THEN [authCheckPattern |-> UrlAuthVerify, loginPath |-> "/auth/signin"]
    ELSE [authCheckPattern |-> DefaultAuthCheckPattern, loginPath |-> DefaultLoginPath]

\* What evaluating store.dispatch(action()) does before any await: it throws,
\* or it returns a value that the await then waits for.
SyncOutcomes == {"throws", "pending"}

\* What the awaited verifier dispatch settles with: a result action, or a
\* rejection of the promise ("raised").
VerifierResults ==
    { [kind |-> "fulfilled", statusCode |-> "none"],
      [kind |-> "rejected", statusCode |-> Unauthorized],
      [kind |-> "rejected", statusCode |-> "500"],
      [kind |-> "rejected", statusCode |-> "none"],
      [kind |-> "other", statusCode |-> "none"],
      [kind |-> "raised", statusCode |-> "none"] }

\* What the awaited teardown dispatch settles with.
TeardownResults == {"settled", "raised"}

(***************************************************************************)
(* State.                                                                  *)
(***************************************************************************)
VARIABLES
    isCheckingAuth,   \* the module-level guard
    location,         \* window.location.pathname, or NoWindow
    started,          \* number of failure-hook invocations so far
    calls,            \* the invocations: idle, suspended in an await, or done
    lastDone,         \* the invocation whose body finished last, with what it did
    cycles,           \* number of times the guard was set for a verifier dispatch
    cycleVerify,      \* verifier dispatches since the guard was last set
    cycleSkipped,     \* 401 failures turned away by the guard since then
    cycleLogout,      \* teardown dispatches since the guard was last set
    cycleNav,         \* assignments to window.location.href since then
    totalVerify,      \* verifier dispatches so far
    errIn,            \* the argument of the processStoreError call, or NoInput
    processed,        \* what that call ended with, or NotProcessed
    friendly,         \* what getUserFriendlyMessage returned for it, or NoFriendly
    client            \* the clients createAxiosClients returned and one exchange on them

vars == <<isCheckingAuth, location, started, calls, lastDone, cycles,
          cycleVerify, cycleSkipped, cycleLogout, cycleNav, totalVerify,
          errIn, processed, friendly, client>>

NoOutcome == [kind |-> "none", statusCode |-> "none"]
NoResult == [kind |-> "pending", src |-> "none", call |-> 0]

NoCall ==
    [ pc |-> "idle",            \* idle, awaitVerify, awaitLogout, done
      id |-> 0,                 \* the invocation's number: names its failure object
      inst |-> "none",          \* the interceptor whose hook was invoked
      hook |-> "none",          \* onFulfilled or onRejected
      authed |-> FALSE,         \* what config.isAuthenticated() would return, where configured
      status |-> NoResponse,    \* the failure's response status
      url |-> NoUrl,            \* the failure's request url
      guardAtEntry |-> FALSE,   \* isCheckingAuth when the hook was invoked
      during |-> "none",        \* the await another invocation was suspended in then
      branch |-> "none",        \* non401, authCheck, busy, verify; passThrough
      verifier |-> "none",      \* none, threw, pending, settled
      outcome |-> NoOutcome,    \* what the verifier dispatch settled with
      teardown |-> "none",      \* none, threw, pending, settled, raised
      nVerify |-> 0,            \* store.dispatch(checkAuthAction()) calls made
      nLogout |-> 0,            \* store.dispatch(logoutAction()) calls made
      nNav |-> 0,               \* assignments to window.location.href
      navTo |-> "none",         \* the path assigned
      locAtTeardown |-> "none", \* the location when the awaited teardown was handled
      logged |-> "none",        \* whose error console.error reported
      guardAtReturn |-> FALSE,  \* isCheckingAuth when the body finished
      result |-> NoResult ]     \* what the returned promise settles with

\* A finished invocation keeps no detail in calls: lastDone holds the detail
\* of the latest one.
DoneCall == [NoCall EXCEPT !.pc = "done"]

(***************************************************************************)
(* The decisions of onRejected.                                            *)
(***************************************************************************)

\* String.prototype.includes on tokenised strings: pat occurs in s.
Includes(s, pat) ==
    \E k \in 0..(Len(s) - Len(pat)) :
        \A j \in 1..Len(pat) : s[k + j] = pat[j]

\* Variant: `error.response && error.response.status !== 401`, which lets a
\* failure without response fall through.
IsNot401_needsResponse(e) == e.status # Unauthorized /\ e.status # NoResponse

\* error.response?.status !== 401
IsNot401(e) == e.status # Unauthorized

\* Variant: the check of line 62 left out.
IsAuthCheckRequest_never(e, pattern) == FALSE

\* error.config?.url?.includes(authCheckPattern): undefined (falsy) without url.
IsAuthCheckRequest(e, pattern) == e.url # NoUrl /\ Includes(e.url, pattern)

\* Variant: the check of line 67 left out.
GuardBlocks_never(g) == FALSE

\* if (isCheckingAuth) return Promise.reject(error)
GuardBlocks(g) == g

\* Variant: the assignment of line 71 left out.
GuardWhileVerifying_unset == FALSE

\* isCheckingAuth = true, before the dispatch
GuardWhileVerifying == TRUE

\* checkAuthAction.fulfilled?.match(resultAction)
FulfilledMatch(r) == r.kind = "fulfilled"

\* checkAuthAction.rejected?.match(resultAction)
RejectedMatch(r) == r.kind = "rejected"

\* Variant: any rejection counts, whatever its status.
PayloadIs401_any(r) == TRUE

\* rejectedPayload?.error?.statusCode === 401
PayloadIs401(r) == r.statusCode = Unauthorized

\* Variant: the fulfilled matcher used where the rejected one belongs.
Verdict_fulfilledIsInvalid(r) ==
    IF FulfilledMatch(r) THEN "invalid" ELSE "inconclusive"

\* The cascade of lines 78-98 over the result action: "valid" returns at
\* once, "invalid" tears the session down, anything else falls through.
Verdict(r) ==
    IF FulfilledMatch(r) THEN "valid"
    ELSE IF RejectedMatch(r) /\ PayloadIs401(r) THEN "invalid"
    ELSE "inconclusive"

\* Variant: the comparison with loginPath left out.
ShouldNavigate_anywhere(loc, loginPath) == loc # NoWindow

\* typeof window !== 'undefined' && window.location.pathname !== loginPath
ShouldNavigate(loc, loginPath) == loc # NoWindow /\ loc # loginPath

\* Promise.reject(error): the call's own failure object
RejectOriginal(c) == [kind |-> "rejected", src |-> "failure", call |-> c]

\* Variant: the success hook returns a value of its own.
PassThrough_dropsValue(c) == [kind |-> "fulfilled", src |-> "none", call |-> 0]

\* (response) => response: the very response the hook was given
PassThrough(c) == [kind |-> "fulfilled", src |-> "response", call |-> c]

\* Variant: the catch block rethrows what it caught.
AfterCatch_rethrow(c, who) == [kind |-> "rejected", src |-> who, call |-> c]

\* catch (err) { console.error(...) }, then the return after the try
\* statement: the caught error of `who` is not rethrown.
AfterCatch(c, who) == RejectOriginal(c)

\* Variant: an empty catch block.
Logged_silent(who) == "none"

\* console.error('Error during auth verification:', err)
Logged(who) == who

\* Variant: no finally block.
GuardAfterFinally_keep(g) == g

\* finally { isCheckingAuth = false }
GuardAfterFinally(g) == FALSE

\* isCheckingAuth = false in the fulfilled branch, then the finally block
GuardAfterValid(g) == GuardAfterFinally(FALSE)

(***************************************************************************)
(* processStoreError: the values it is given and what it computes.         *)
(* A string is a sequence of tokens, so that trim() and the emptiness      *)
(* tests have something to decide; a number is a natural number.           *)
(***************************************************************************)
EmptyString == << >>
BlankString == <<" ", " ">>
PaddedString == <<" ", "oops", " ">>
NetworkErrorText == <<"Network", " ", "Error">>
ValidationFailedText == <<"Validation", " ", "failed">>

\* The three literals of processStoreError.
UnexpectedErrorMessage == <<"An unexpected error occurred. Please try again.">>
ServerCommunicationMessage == <<"A server communication error occurred.">>

\* A primitive value, or the absence of a property ("absent").
Undefined == [t |-> "undefined", s |-> EmptyString, n |-> 0]
Absent == [t |-> "absent", s |-> EmptyString, n |-> 0]
Str(s) == [t |-> "string", s |-> s, n |-> 0]
Num(n) == [t |-> "number", s |-> EmptyString, n |-> n]

\* A response body, or the `data` of a plain object: undefined, null, or an
\* object that may have a message property.  "absent": no such property.
Body(t, m) == [t |-> t, message |-> m]
NoBody == Body("absent", Absent)
Bodies ==
    { Body("undefined", Absent), Body("null", Absent), Body("object", Absent),
      Body("object", Str(EmptyString)), Body("object", Str(BlankString)),
      Body("object", Str(ValidationFailedText)) }

\* error.response of an AxiosError; present = FALSE when there is none.
NoResponseObject ==
    [present |-> FALSE, status |-> 0, statusText |-> EmptyString, data |-> NoBody]
StatusTextOf(n) ==
    CASE n = 401 -> <<"Unauthorized">>
      [] n = 403 -> <<"Forbidden">>
      [] n = 422 -> <<"Unprocessable", " ", "Entity">>
      [] n = 503 -> <<"Service", " ", "Unavailable">>
      [] OTHER   -> <<"Internal", " ", "Server", " ", "Error">>
Responses ==
    { [present |-> TRUE, status |-> n, statusText |-> StatusTextOf(n), data |-> b] :
        n \in {401, 403, 422, 500, 503}, b \in Bodies }

\* The inputs.  kind is what the input is: null, undefined, boolean, number,
\* string, object (a plain object), Error, AxiosError.  str is the text of a
\* string; message, statusCode and data are the properties of an object
\* (Absent / NoBody when it has none); response is that of an AxiosError.
Value(k, str, m, sc, d, r) ==
    [kind |-> k, str |-> str, message |-> m, statusCode |-> sc, data |-> d,
     response |-> r]
Primitive(k) == Value(k, EmptyString, Absent, Absent, NoBody, NoResponseObject)
NoInput == Primitive("none")
Inputs ==
    {Primitive(k) : k \in {"null", "undefined", "boolean", "number"}}
    \cup {Value("string", str, Absent, Absent, NoBody, NoResponseObject) :
            str \in {EmptyString, BlankString, PaddedString, NetworkErrorText}}
    \cup {Value("object", EmptyString, m, sc, d, NoResponseObject) :
            m \in {Absent, Str(EmptyString), Str(BlankString),
                   Str(ValidationFailedText), Num(7)},
            sc \in {Absent, Num(500), Str(<<"500">>)},
            d \in {NoBody, Body("null", Absent), Body("object", Absent)}}
    \cup {Value("Error", EmptyString, Str(m), Absent, NoBody, NoResponseObject) :
            m \in {EmptyString, BlankString, NetworkErrorText}}
    \cup {Value("AxiosError", EmptyString, Str(m), Absent, NoBody, r) :
            m \in {EmptyString, NetworkErrorText},
            r \in {NoResponseObject} \cup Responses}

\* String.prototype.trim
RECURSIVE TrimLeft(_)
TrimLeft(s) == IF s # << >> /\ Head(s) = " " THEN TrimLeft(Tail(s)) ELSE s
RECURSIVE TrimRight(_)
TrimRight(s) ==
    IF s # << >> /\ s[Len(s)] = " " THEN TrimRight(SubSeq(s, 1, Len(s) - 1)) ELSE s
Trim(s) == TrimRight(TrimLeft(s))

\* typeof
TypeOf(e) ==
    CASE e.kind \in {"undefined", "boolean", "number", "string"} -> e.kind
      [] OTHER -> "object"

\* The truthiness `||` and `&&` decide by.
Truthy(v) ==
    CASE v.t = "string" -> v.s # EmptyString
      [] v.t = "number" -> v.n # 0
      [] OTHER -> FALSE
Or(v, w) == IF Truthy(v) THEN v ELSE w

\* Reading a property that may be absent yields undefined.
Read(v) == IF v.t = "absent" THEN Undefined ELSE v

\* error.response?.status
OptStatus(e) == IF e.response.present THEN Num(e.response.status) ELSE Undefined

\* error.response?.data
OptData(e) == IF e.response.present THEN e.response.data ELSE Body("undefined", Absent)

\* error.response?.data?.message
OptDataMessage(e) == IF OptData(e).t = "object" THEN Read(OptData(e).message) ELSE Undefined

\* Variant: the response's statusText stands in for a missing body message.
AxiosMessage_statusText(e) ==
    Or(Or(OptDataMessage(e),
          IF e.response.present THEN Str(e.response.statusText) ELSE Undefined),
       Or(Read(e.message), Str(ServerCommunicationMessage)))

\* error.response?.data?.message || error.message || 'A server communication error occurred.'
AxiosMessage(e) ==
    Or(Or(OptDataMessage(e), Read(e.message)), Str(ServerCommunicationMessage))

\* Variant: typeof error === 'object' alone.
IsNonNullObject_typeofOnly(e) == TypeOf(e) = "object"

\* error && typeof error === 'object'
IsNonNullObject(e) == e.kind # "null" /\ e.kind # "undefined" /\ TypeOf(e) = "object"

\* The right operand of `in` must be an object, else a TypeError is raised.
InRaises(e) == e.kind \notin {"object", "Error", "AxiosError"}

\* What a call of processStoreError ends with: the record it returns, or an
\* exception.  state "none": no call was made.
Returned(e, sc, m, d, ax) ==
    [state |-> "returned", statusCode |-> sc, message |-> m, data |-> d,
     isAxiosError |-> ax, originalError |-> e]
Raised(e) ==
    [state |-> "raised", statusCode |-> 0, message |-> Undefined,
     data |-> Body("undefined", Absent), isAxiosError |-> FALSE, originalError |-> e]
NotProcessed ==
    [state |-> "none", statusCode |-> 0, message |-> Undefined,
     data |-> Body("undefined", Absent), isAxiosError |-> FALSE, originalError |-> NoInput]

\* let errorData: any | undefined, and `data: errorData` of a property read
DataOf(d) == IF d.t = "absent" THEN Body("undefined", Absent) ELSE d

processStoreError(e) ==
    IF e.kind = "AxiosError" THEN
        Returned(e, Or(OptStatus(e), Num(0)).n, AxiosMessage(e), DataOf(OptData(e)), TRUE)
    ELSE IF e.kind = "Error" THEN
        Returned(e, 0, Read(e.message), Body("undefined", Absent), FALSE)
    ELSE IF TypeOf(e) = "string" /\ Trim(e.str) # EmptyString THEN
        Returned(e, 0, Str(e.str), Body("undefined", Absent), FALSE)
    ELSE IF IsNonNullObject(e) THEN
        IF InRaises(e) THEN Raised(e)
        ELSE Returned(e,
                IF e.statusCode.t = "number" THEN e.statusCode.n ELSE 0,
                IF e.message.t = "string" /\ Trim(e.message.s) # EmptyString
                    THEN e.message ELSE Str(UnexpectedErrorMessage),
                DataOf(e.data),
                FALSE)
    ELSE
        Returned(e, 0, Str(UnexpectedErrorMessage), Body("undefined", Absent), FALSE)

\* The properties of the object literal processStoreError returns.
ReturnedFields == {"statusCode", "message", "data", "isAxiosError", "originalError"}

\* Variant: a status of 0 alone.
isNetworkError_statusOnly(p) == p.statusCode = 0

\* error.isAxiosError && error.statusCode === 0
isNetworkError(p) == p.isAxiosError /\ p.statusCode = 0

\* processedError.statusCode === 401
isAuthError(p) == p.statusCode = 401

\* processedError.statusCode === 403
isAuthorizationError(p) == p.statusCode = 403

\* processedError.statusCode === 422
isValidationError(p) == p.statusCode = 422

\* Variant: status 500 alone.
isServerError_only500(p) == p.statusCode = 500

\* processedError.statusCode >= 500
isServerError(p) == p.statusCode >= 500

\* The five sentences of getUserFriendlyMessage.
NetworkSentence ==
    <<"Unable to connect to the server. Please check your internet connection.">>
SessionExpiredSentence == <<"Your session has expired. Please log in again.">>
PermissionSentence == <<"You do not have permission to perform this action.">>
ValidationSentence == <<"Please check the form for errors and try again.">>
ServerSentence == <<"A server error occurred. Please try again later.">>

\* No call of getUserFriendlyMessage was made.
NoFriendly == [t |-> "none", s |-> EmptyString, n |-> 0]

getUserFriendlyMessage(p) ==
    IF isNetworkError(p) THEN Str(NetworkSentence)
    ELSE IF isAuthError(p) THEN Str(SessionExpiredSentence)
    ELSE IF isAuthorizationError(p) THEN Str(PermissionSentence)
    ELSE IF isValidationError(p) THEN Str(ValidationSentence)
    ELSE IF isServerError(p) THEN Str(ServerSentence)
    ELSE p.message

(***************************************************************************)
(* createAxiosClients (axiosClientCached.ts) and one exchange on a client  *)
(* it returned.  handlers[k] is the number of handler pairs in the         *)
(* response interceptor chain of client k.                                 *)
(***************************************************************************)
ClientNames == {"cached", "noCache"}

NoClient ==
    [ created |-> FALSE,
      sameInstance |-> FALSE,     \* setupCache returned the instance it was given
      handlers |-> [k \in ClientNames |-> 0],
      exchange |-> "none",        \* none, failed, settled
      via |-> "none",             \* the client the request was made on
      status |-> NoResponse,      \* the failure's response status
      url |-> NoUrl,              \* the failure's request url
      remaining |-> 0,            \* handlers of the chain that have not run yet
      hookCalls |-> 0,            \* invocations of authInterceptor.onRejected
      nVerify |-> 0,              \* verifier dispatches those invocations made
      nLogout |-> 0,              \* teardown dispatches they made
      nNav |-> 0 ]                \* assignments to window.location.href they made

\* One call of interceptors.response.use on each of the two names (lines
\* 64-65): both on one chain when the two names are the same instance.
RegisteredPairs(same) == [k \in ClientNames |-> IF same THEN 2 ELSE 1]

TypeOK ==
    /\ isCheckingAuth \in BOOLEAN
    /\ location \in Locations
    /\ started \in 0..MaxCalls
    /\ cycles \in 0..MaxCalls
    /\ cycleVerify \in 0..MaxCalls
    /\ cycleSkipped \in 0..MaxCalls
    /\ cycleLogout \in 0..MaxCalls
    /\ cycleNav \in 0..MaxCalls
    /\ totalVerify \in 0..MaxCalls
    /\ \A c \in Calls : calls[c].pc \in {"idle", "awaitVerify", "awaitLogout", "done"}
    /\ lastDone.pc \in {"idle", "done"}
    /\ errIn \in Inputs \cup {NoInput}
    /\ processed.state \in {"none", "returned", "raised"}
    /\ friendly.t \in {"none", "undefined", "string", "number"}
    /\ client.exchange \in {"none", "failed", "settled"}

Init ==
    /\ isCheckingAuth = FALSE
    /\ location \in Locations
    /\ started = 0
    /\ calls = [c \in Calls |-> NoCall]
    /\ lastDone = NoCall
    /\ cycles = 0
    /\ cycleVerify = 0
    /\ cycleSkipped = 0
    /\ cycleLogout = 0
    /\ cycleNav = 0
    /\ totalVerify = 0
    /\ errIn = NoInput
    /\ processed = NotProcessed
    /\ friendly = NoFriendly
    /\ client = NoClient

\* The call's body finishes: its promise settles with `res`.
Finish(rec, g, res) ==
    [rec EXCEPT !.pc = "done", !.guardAtReturn = g, !.result = res]

\* The arguments of an invocation, recorded on entry.
Enter(c, i, e) ==
    [calls[c] EXCEPT !.id = c, !.inst = i, !.hook = "onRejected",
                     !.status = e.status, !.url = e.url,
                     !.guardAtEntry = isCheckingAuth,
                     !.during = IF \E k \in Calls : calls[k].pc = "awaitLogout"
                                    THEN "awaitLogout"
                                ELSE IF \E k \in Calls : calls[k].pc = "awaitVerify"
                                    THEN "awaitVerify"
                                ELSE "none"]

(***************************************************************************)
(* onRejected, from its invocation to its first await or its return        *)
(* (lines 55-75).  Invocations are numbered in the order they are made.    *)
(***************************************************************************)
OnRejected(c, i, e) ==
    /\ c = started + 1
    /\ started' = c
    /\ UNCHANGED <<errIn, processed, friendly, client>>
    /\ UNCHANGED location
    /\ LET rec == Enter(c, i, e) IN
       IF IsNot401(e) THEN
            /\ lastDone' = Finish([rec EXCEPT !.branch = "non401"],
                                  isCheckingAuth, RejectOriginal(c))
            /\ calls' = [calls EXCEPT ![c] = DoneCall]
            /\ UNCHANGED <<isCheckingAuth, cycles, cycleVerify, cycleSkipped,
                           cycleLogout, cycleNav, totalVerify>>
       ELSE IF IsAuthCheckRequest(e, Config(i).authCheckPattern) THEN
            /\ lastDone' = Finish([rec EXCEPT !.branch = "authCheck"],
                                  isCheckingAuth, RejectOriginal(c))
            /\ calls' = [calls EXCEPT ![c] = DoneCall]
            /\ UNCHANGED <<isCheckingAuth, cycles, cycleVerify, cycleSkipped,
                           cycleLogout, cycleNav, totalVerify>>
       ELSE IF GuardBlocks(isCheckingAuth) THEN
            /\ lastDone' = Finish([rec EXCEPT !.branch = "busy"],
                                  isCheckingAuth, RejectOriginal(c))
            /\ calls' = [calls EXCEPT ![c] = DoneCall]
            /\ cycleSkipped' = cycleSkipped + 1
            /\ UNCHANGED <<isCheckingAuth, cycles, cycleVerify,
                           cycleLogout, cycleNav, totalVerify>>
       ELSE \E o \in SyncOutcomes :
            /\ cycles' = IF isCheckingAuth THEN cycles ELSE cycles + 1
            /\ cycleVerify' = IF isCheckingAuth THEN cycleVerify + 1 ELSE 1
            /\ cycleSkipped' = IF isCheckingAuth THEN cycleSkipped ELSE 0
            /\ cycleLogout' = IF isCheckingAuth THEN cycleLogout ELSE 0
            /\ cycleNav' = IF isCheckingAuth THEN cycleNav ELSE 0
            /\ totalVerify' = totalVerify + 1
            /\ IF o = "pending" THEN
                \* the dispatch returned; the hook is suspended in the await
                /\ isCheckingAuth' = GuardWhileVerifying
                /\ calls' = [calls EXCEPT ![c] =
                     [rec EXCEPT !.branch = "verify", !.pc = "awaitVerify",
                                 !.verifier = "pending", !.nVerify = @ + 1]]
                /\ UNCHANGED lastDone
               ELSE
                \* the dispatch threw inside the try block: catch, finally, return
                /\ isCheckingAuth' = GuardAfterFinally(GuardWhileVerifying)
                /\ lastDone' = Finish([rec EXCEPT !.branch = "verify", !.verifier = "threw",
                                                  !.nVerify = @ + 1, !.logged = Logged("verifier")],
                                      GuardAfterFinally(GuardWhileVerifying),
                                      AfterCatch(c, "verifier"))
                /\ calls' = [calls EXCEPT ![c] = DoneCall]

\* The host's store settles the promise of the verifier dispatch.
VerifierSettles(c, r) ==
    /\ calls[c].pc = "awaitVerify"
    /\ calls[c].verifier = "pending"
    /\ UNCHANGED <<errIn, processed, friendly, client>>
    /\ calls' = [calls EXCEPT ![c].verifier = "settled", ![c].outcome = r]
    /\ UNCHANGED <<isCheckingAuth, location, started, lastDone, cycles,
                   cycleVerify, cycleSkipped, cycleLogout, cycleNav, totalVerify>>

(***************************************************************************)
(* onRejected resumed after `await store.dispatch(checkAuthAction())`      *)
(* (lines 75-105), up to the await of the teardown dispatch or the return. *)
(***************************************************************************)
ResumeAfterVerify(c) ==
    /\ calls[c].pc = "awaitVerify"
    /\ calls[c].verifier = "settled"
    /\ UNCHANGED <<errIn, processed, friendly, client>>
    /\ UNCHANGED <<location, started, cycles, cycleVerify, cycleSkipped,
                   cycleNav, totalVerify>>
    /\ cycleLogout' = IF calls[c].outcome.kind # "raised" /\ Verdict(calls[c].outcome) = "invalid"
                      THEN cycleLogout + 1 ELSE cycleLogout
    /\ LET rec == calls[c]
           r == rec.outcome
       IN
       IF r.kind = "raised" THEN
            \* the await throws: catch, finally, return
            /\ isCheckingAuth' = GuardAfterFinally(isCheckingAuth)
            /\ lastDone' = Finish([rec EXCEPT !.logged = Logged("verifier")],
                                  GuardAfterFinally(isCheckingAuth),
                                  AfterCatch(c, "verifier"))
            /\ calls' = [calls EXCEPT ![c] = DoneCall]
       ELSE IF Verdict(r) = "valid" THEN
            /\ isCheckingAuth' = GuardAfterValid(isCheckingAuth)
            /\ lastDone' = Finish(rec, GuardAfterValid(isCheckingAuth), RejectOriginal(c))
            /\ calls' = [calls EXCEPT ![c] = DoneCall]
       ELSE IF Verdict(r) = "invalid" THEN
            \E o \in SyncOutcomes :
                IF o = "pending" THEN
                    /\ isCheckingAuth' = isCheckingAuth
                    /\ calls' = [calls EXCEPT ![c] =
                         [rec EXCEPT !.pc = "awaitLogout", !.teardown = "pending",
                                     !.nLogout = @ + 1]]
                    /\ UNCHANGED lastDone
                ELSE
                    /\ isCheckingAuth' = GuardAfterFinally(isCheckingAuth)
                    /\ lastDone' = Finish([rec EXCEPT !.teardown = "threw",
                                                      !.nLogout = @ + 1,
                                                      !.locAtTeardown = location,
                                                      !.logged = Logged("teardown")],
                                          GuardAfterFinally(isCheckingAuth),
                                          AfterCatch(c, "teardown"))
                    /\ calls' = [calls EXCEPT ![c] = DoneCall]
       ELSE
            \* neither matcher, or a rejection that is not a 401: finally, return
            /\ isCheckingAuth' = GuardAfterFinally(isCheckingAuth)
            /\ lastDone' = Finish(rec, GuardAfterFinally(isCheckingAuth), RejectOriginal(c))
            /\ calls' = [calls EXCEPT ![c] = DoneCall]

\* The host's store settles the promise of the teardown dispatch.
TeardownSettles(c, t) ==
    /\ calls[c].pc = "awaitLogout"
    /\ calls[c].teardown = "pending"
    /\ UNCHANGED <<errIn, processed, friendly, client>>
    /\ calls' = [calls EXCEPT ![c].teardown = t]
    /\ UNCHANGED <<isCheckingAuth, location, started, lastDone, cycles,
                   cycleVerify, cycleSkipped, cycleLogout, cycleNav, totalVerify>>

(***************************************************************************)
(* onRejected resumed after `await store.dispatch(logoutAction())`         *)
(* (lines 91-105).  Assigning window.location.href starts a navigation;    *)
(* whether pathname already shows the new path afterwards is the host's    *)
(* business, so both are allowed.                                          *)
(***************************************************************************)
ResumeAfterLogout(c) ==
    /\ calls[c].pc = "awaitLogout"
    /\ calls[c].teardown \in TeardownResults
    /\ UNCHANGED <<errIn, processed, friendly, client>>
    /\ UNCHANGED <<started, cycles, cycleVerify, cycleSkipped, cycleLogout,
                   totalVerify>>
    /\ isCheckingAuth' = GuardAfterFinally(isCheckingAuth)
    /\ calls' = [calls EXCEPT ![c] = DoneCall]
    /\ LET rec == calls[c]
           loginPath == Config(rec.inst).loginPath
       IN
       IF rec.teardown = "raised" THEN
            /\ UNCHANGED <<location, cycleNav>>
            /\ lastDone' = Finish([rec EXCEPT !.logged = Logged("teardown"),
                                              !.locAtTeardown = location],
                                  GuardAfterFinally(isCheckingAuth),
                                  AfterCatch(c, "teardown"))
       ELSE IF ShouldNavigate(location, loginPath) THEN
            /\ location' \in {location, loginPath}
            /\ cycleNav' = cycleNav + 1
            /\ lastDone' = Finish([rec EXCEPT !.nNav = @ + 1, !.navTo = loginPath,
                                              !.locAtTeardown = location],
                                  GuardAfterFinally(isCheckingAuth), RejectOriginal(c))
       ELSE
            /\ UNCHANGED <<location, cycleNav>>
            /\ lastDone' = Finish([rec EXCEPT !.locAtTeardown = location],
                                  GuardAfterFinally(isCheckingAuth), RejectOriginal(c))

(***************************************************************************)
(* The failure hook of createAuthInterceptorLegacy (lines 117-145): the    *)
(* same three early returns, then the guard is set and reset around a      *)
(* console.warn, with no await in between.                                 *)
(***************************************************************************)
OnRejectedLegacy(c, e) ==
    /\ c = started + 1
    /\ started' = c
    /\ UNCHANGED <<errIn, processed, friendly, client>>
    /\ calls' = [calls EXCEPT ![c] = DoneCall]
    /\ UNCHANGED <<location, cycleVerify, cycleLogout, cycleNav, totalVerify>>
    /\ LET rec == Enter(c, Legacy, e) IN
       IF IsNot401(e) THEN
            /\ lastDone' = Finish([rec EXCEPT !.branch = "non401"],
                                  isCheckingAuth, RejectOriginal(c))
            /\ UNCHANGED <<isCheckingAuth, cycles, cycleSkipped>>
       ELSE IF IsAuthCheckRequest(e, DefaultAuthCheckPattern) THEN
            /\ lastDone' = Finish([rec EXCEPT !.branch = "authCheck"],
                                  isCheckingAuth, RejectOriginal(c))
            /\ UNCHANGED <<isCheckingAuth, cycles, cycleSkipped>>
       ELSE IF GuardBlocks(isCheckingAuth) THEN
            /\ lastDone' = Finish([rec EXCEPT !.branch = "busy"],
                                  isCheckingAuth, RejectOriginal(c))
            /\ cycleSkipped' = cycleSkipped + 1
            /\ UNCHANGED <<isCheckingAuth, cycles>>
       ELSE
            /\ isCheckingAuth' = GuardAfterFinally(GuardWhileVerifying)
            /\ lastDone' = Finish([rec EXCEPT !.branch = "verify"],
                                  GuardAfterFinally(GuardWhileVerifying), RejectOriginal(c))
            /\ UNCHANGED <<cycles, cycleSkipped>>

(***************************************************************************)
(* The failure hook of createAuthInterceptor (lines 55-106) when the       *)
(* configuration has no store: after the same three early returns the      *)
(* guard is set, `store.dispatch` throws a TypeError inside the try block  *)
(* before any dispatch is made, the catch block logs it, the finally block *)
(* resets the guard and the original failure is rejected.  config.dispatch,*)
(* config.navigate and config.isAuthenticated are never read; `a` is what  *)
(* isAuthenticated() would have returned.                                  *)
(***************************************************************************)
OnRejectedNoStore(c, e, a) ==
    /\ c = started + 1
    /\ started' = c
    /\ UNCHANGED <<errIn, processed, friendly, client>>
    /\ calls' = [calls EXCEPT ![c] = DoneCall]
    /\ UNCHANGED <<location, cycleVerify, cycleLogout, cycleNav, totalVerify>>
    /\ LET rec == [Enter(c, HostCallbacks, e) EXCEPT !.authed = a] IN
       IF IsNot401(e) THEN
            /\ lastDone' = Finish([rec EXCEPT !.branch = "non401"],
                                  isCheckingAuth, RejectOriginal(c))
            /\ UNCHANGED <<isCheckingAuth, cycles, cycleSkipped>>
       ELSE IF IsAuthCheckRequest(e, Config(HostCallbacks).authCheckPattern) THEN
            /\ lastDone' = Finish([rec EXCEPT !.branch = "authCheck"],
                                  isCheckingAuth, RejectOriginal(c))
            /\ UNCHANGED <<isCheckingAuth, cycles, cycleSkipped>>
       ELSE IF GuardBlocks(isCheckingAuth) THEN
            /\ lastDone' = Finish([rec EXCEPT !.branch = "busy"],
                                  isCheckingAuth, RejectOriginal(c))
            /\ cycleSkipped' = cycleSkipped + 1
            /\ UNCHANGED <<isCheckingAuth, cycles>>
       ELSE
            /\ isCheckingAuth' = GuardAfterFinally(GuardWhileVerifying)
            /\ lastDone' = Finish([rec EXCEPT !.branch = "verify", !.verifier = "threw",
                                              !.logged = Logged("verifier")],
                                  GuardAfterFinally(GuardWhileVerifying),
                                  AfterCatch(c, "verifier"))
            /\ UNCHANGED <<cycles, cycleSkipped>>

(***************************************************************************)
(* The success hook of an interceptor (line 54, and line 116 for the       *)
(* legacy one): the identity function.                                     *)
(***************************************************************************)
OnFulfilled(c, i) ==
    /\ c = started + 1
    /\ started' = c
    /\ UNCHANGED <<errIn, processed, friendly, client>>
    /\ calls' = [calls EXCEPT ![c] = DoneCall]
    /\ lastDone' = Finish([calls[c] EXCEPT !.id = c, !.inst = i, !.hook = "onFulfilled",
                                           !.guardAtEntry = isCheckingAuth,
                                           !.branch = "passThrough"],
                          isCheckingAuth, PassThrough(c))
    /\ UNCHANGED <<isCheckingAuth, location, cycles, cycleVerify, cycleSkipped,
                   cycleLogout, cycleNav, totalVerify>>

Next ==
    \/ \E c \in Calls, i \in Interceptors, e \in Errors : OnRejected(c, i, e)
    \/ \E c \in Calls, r \in VerifierResults : VerifierSettles(c, r)
    \/ \E c \in Calls : ResumeAfterVerify(c)
    \/ \E c \in Calls, t \in TeardownResults : TeardownSettles(c, t)
    \/ \E c \in Calls : ResumeAfterLogout(c)
    \/ \E c \in Calls, e \in Errors : OnRejectedLegacy(c, e)
    \/ \E c \in Calls, e \in CallbackErrors, a \in BOOLEAN : OnRejectedNoStore(c, e, a)
    \/ \E c \in Calls, i \in Interceptors \cup {Legacy, HostCallbacks} : OnFulfilled(c, i)

Spec == Init /\ [][Next]_vars

\* Number of failure-hook invocations a behaviour of FairSpec may hold.
MaxFairCalls == 2

\* The failure hook of createAuthInterceptor and its continuations.
FairNext ==
    \/ \E c \in 1..MaxFairCalls, i \in Interceptors, e \in Errors : OnRejected(c, i, e)
    \/ \E c \in Calls, r \in VerifierResults : VerifierSettles(c, r)
    \/ \E c \in Calls : ResumeAfterVerify(c)
    \/ \E c \in Calls, t \in TeardownResults : TeardownSettles(c, t)
    \/ \E c \in Calls : ResumeAfterLogout(c)

\* That machine under the scheduling that JavaScript provides and the
\* hypothesis that the host's store settles the promises it returned: a
\* settled promise's continuation is run, and each of the two dispatches
\* settles.  Nothing obliges a client to make a request.
FairSpec ==
    /\ Init /\ [][FairNext]_vars
    /\ WF_vars(\E c \in Calls, r \in VerifierResults : VerifierSettles(c, r))
    /\ WF_vars(\E c \in Calls : ResumeAfterVerify(c))
    /\ WF_vars(\E c \in Calls, t \in TeardownResults : TeardownSettles(c, t))
    /\ WF_vars(\E c \in Calls : ResumeAfterLogout(c))

(***************************************************************************)
(* A second specification: one call of processStoreError on an input drawn *)
(* from Inputs.  The function reads and writes nothing of the interceptor. *)
(***************************************************************************)
ClassifyInit ==
    /\ isCheckingAuth = FALSE
    /\ location \in Locations
    /\ started = 0
    /\ calls = [c \in Calls |-> NoCall]
    /\ lastDone = NoCall
    /\ cycles = 0
    /\ cycleVerify = 0
    /\ cycleSkipped = 0
    /\ cycleLogout = 0
    /\ cycleNav = 0
    /\ totalVerify = 0
    /\ errIn \in Inputs
    /\ processed = NotProcessed
    /\ friendly = NoFriendly
    /\ client = NoClient

ProcessStoreError ==
    /\ processed.state = "none"
    /\ processed' = processStoreError(errIn)
    /\ UNCHANGED <<isCheckingAuth, location, started, calls, lastDone, cycles,
                   cycleVerify, cycleSkipped, cycleLogout, cycleNav, totalVerify,
                   errIn, friendly, client>>

\* getUserFriendlyMessage applied to the record processStoreError returned.
GetUserFriendlyMessage ==
    /\ processed.state = "returned"
    /\ friendly = NoFriendly
    /\ friendly' = getUserFriendlyMessage(processed)
    /\ UNCHANGED <<isCheckingAuth, location, started, calls, lastDone, cycles,
                   cycleVerify, cycleSkipped, cycleLogout, cycleNav, totalVerify,
                   errIn, processed, client>>

ClassifyNext == ProcessStoreError \/ GetUserFriendlyMessage

ClassifySpec == ClassifyInit /\ [][ClassifyNext]_vars

(***************************************************************************)
(* A third specification: createAxiosClients, then one exchange that fails *)
(* on one of the two clients and is handed down the client's chain of      *)
(* response handlers.  setupCache belongs to axios-cache-interceptor: it   *)
(* returns the instance it was given, with the cache added to it, or (were *)
(* it to) an instance of its own; both are allowed.  No other exchange is  *)
(* in flight, so a run of the failure hook, awaits included, is one step.  *)
(***************************************************************************)
ClientInit == Init

CreateAxiosClients(auth, same) ==
    /\ ~client.created
    /\ client' = [client EXCEPT !.created = TRUE, !.sameInstance = same,
                                !.handlers = IF auth THEN RegisteredPairs(same)
                                             ELSE [k \in ClientNames |-> 0]]
    /\ UNCHANGED <<isCheckingAuth, location, started, calls, lastDone, cycles,
                   cycleVerify, cycleSkipped, cycleLogout, cycleNav, totalVerify,
                   errIn, processed, friendly>>

\* The transport rejects the request made on client k.
ExchangeFails(k, e) ==
    /\ client.created /\ client.exchange = "none"
    /\ client' = [client EXCEPT !.exchange = "failed", !.via = k,
                                !.status = e.status, !.url = e.url,
                                !.remaining = client.handlers[k]]
    /\ UNCHANGED <<isCheckingAuth, location, started, calls, lastDone, cycles,
                   cycleVerify, cycleSkipped, cycleLogout, cycleNav, totalVerify,
                   errIn, processed, friendly>>

\* The next handler pair of the chain: authInterceptor.onRejected is called
\* with the failure and runs until its promise rejects, with the failure
\* again, which hands the failure to the handler after it.
HookRuns(r, t) ==
    /\ client.exchange = "failed" /\ client.remaining > 0
    /\ UNCHANGED <<started, calls, lastDone, cycles, cycleVerify, cycleSkipped,
                   cycleLogout, cycleNav, totalVerify, errIn, processed, friendly>>
    /\ LET e == [status |-> client.status, url |-> client.url]
           ran == [client EXCEPT !.remaining = @ - 1, !.hookCalls = @ + 1]
           loginPath == Config("default").loginPath
       IN
       IF \/ IsNot401(e)
          \/ IsAuthCheckRequest(e, Config("default").authCheckPattern)
          \/ GuardBlocks(isCheckingAuth)
       THEN /\ client' = ran
            /\ UNCHANGED <<isCheckingAuth, location>>
       ELSE /\ isCheckingAuth' = GuardAfterFinally(GuardWhileVerifying)
            /\ IF r.kind = "raised" \/ Verdict(r) # "invalid" THEN
                    /\ client' = [ran EXCEPT !.nVerify = @ + 1]
                    /\ UNCHANGED location
               ELSE IF t = "settled" /\ ShouldNavigate(location, loginPath) THEN
                    /\ client' = [ran EXCEPT !.nVerify = @ + 1, !.nLogout = @ + 1,
                                             !.nNav = @ + 1]
                    /\ location' \in {location, loginPath}
               ELSE
                    /\ client' = [ran EXCEPT !.nVerify = @ + 1, !.nLogout = @ + 1]
                    /\ UNCHANGED location

\* No handler is left: the caller's promise rejects.
ExchangeSettles ==
    /\ client.exchange = "failed" /\ client.remaining = 0
    /\ client' = [client EXCEPT !.exchange = "settled"]
    /\ UNCHANGED <<isCheckingAuth, location, started, calls, lastDone, cycles,
                   cycleVerify, cycleSkipped, cycleLogout, cycleNav, totalVerify,
                   errIn, processed, friendly>>

ClientNext ==
    \/ \E auth \in BOOLEAN, same \in BOOLEAN : CreateAxiosClients(auth, same)
    \/ \E k \in ClientNames, e \in Errors : ExchangeFails(k, e)
    \/ \E r \in VerifierResults, t \in TeardownResults : HookRuns(r, t)
    \/ ExchangeSettles

ClientSpec == ClientInit /\ [][ClientNext]_vars

(***************************************************************************)
(* Vocabulary of the properties.                                           *)
(***************************************************************************)

\* The invocations suspended in one of the two awaits.
Suspended == {c \in Calls : calls[c].pc \in {"awaitVerify", "awaitLogout"}}

\* The verifier dispatches that were made and have not settled.
ActiveVerifications == {c \in Calls : calls[c].verifier = "pending"}

\* lastDone is a finished invocation of a createAuthInterceptor failure hook.
Finished ==
    /\ lastDone.pc = "done"
    /\ lastDone.inst \in Interceptors
    /\ lastDone.hook = "onRejected"

\* The promise of the invocation was rejected with its own failure object.
RejectedWithOriginal(rec) ==
    /\ rec.result.kind = "rejected"
    /\ rec.result.src = "failure"
    /\ rec.result.call = rec.id

\* The invocation caused nothing a caller or the host could observe.
NoSideEffect(rec) ==
    /\ rec.nVerify = 0 /\ rec.verifier = "none"
    /\ rec.nLogout = 0 /\ rec.teardown = "none"
    /\ rec.nNav = 0 /\ rec.navTo = "none"
    /\ rec.logged = "none"

\* The failure's request is the verifier's own request of that interceptor.
TargetsVerifier(rec) ==
    \/ rec.inst = "default" /\ rec.url = UrlMeCheck
    \/ rec.inst = "custom" /\ rec.url = UrlAuthVerify

\* Every finishing step records the guard it leaves behind.
ReturnGuardRecorded ==
    [][lastDone' # lastDone => lastDone'.guardAtReturn = isCheckingAuth']_vars

(***************************************************************************)
(* Properties.                                                             *)
(***************************************************************************)

\* C1: in every reachable state at most one verifier dispatch is active
\* (dispatched and not yet settled), however the failure hooks interleave;
\* the guard is tested and set inside one uninterrupted run of the hook.
C1_AtMostOneActiveVerification ==
    /\ Cardinality(ActiveVerifications) <= 1
    /\ ActiveVerifications # {} => isCheckingAuth

\* C1 witness: a verification is active while another 401 was turned away.
C1_Witness ==
    /\ Cardinality(ActiveVerifications) = 1
    /\ Finished /\ lastDone.branch = "busy"

\* C2: a failure whose status is not 401 (or that has no response) causes
\* no verifier dispatch, no teardown, no navigation and no log, is never
\* suspended, leaves the guard as it found it, true or false, and is
\* rejected with the same failure object.
C2_Non401PassesThrough ==
    /\ (Finished /\ lastDone.status # Unauthorized) =>
            /\ NoSideEffect(lastDone)
            /\ lastDone.guardAtReturn = lastDone.guardAtEntry
            /\ RejectedWithOriginal(lastDone)
    /\ \A c \in Suspended : calls[c].status = Unauthorized

\* C2 witness: a failure without response went through while the guard was set.
C2_Witness ==
    /\ Finished
    /\ lastDone.status = NoResponse
    /\ lastDone.guardAtEntry /\ isCheckingAuth

\* C3: a 401 failure arriving while the guard is true is rejected at once
\* with its own failure, without being suspended, without verifier dispatch,
\* teardown or navigation, and the guard stays true; while the guard is set,
\* exactly one verifier dispatch has been made since it was set, however
\* many 401 failures were turned away.
C3_SkippedWhileVerifying ==
    /\ (Finished /\ lastDone.status = Unauthorized /\ lastDone.guardAtEntry) =>
            /\ lastDone.branch \in {"busy", "authCheck"}
            /\ NoSideEffect(lastDone)
            /\ lastDone.guardAtReturn
            /\ RejectedWithOriginal(lastDone)
    /\ \A c \in Suspended : ~calls[c].guardAtEntry
    /\ isCheckingAuth => cycleVerify = 1

\* C3 witness: two 401 failures were turned away during one verification.
C3_Witness ==
    /\ Finished /\ lastDone.branch = "busy"
    /\ isCheckingAuth /\ cycleSkipped = 2 /\ cycleVerify = 1

\* C4: the guard is true exactly while an invocation is suspended in its
\* verification; whatever the verification settled with, the guard is false
\* when the invocation that handled it returns; and a 401 failure that is
\* not the verifier's own request and arrives while the guard is false
\* starts exactly one verification.
C4_GuardReturnsToIdle ==
    /\ isCheckingAuth <=> Suspended # {}
    /\ (Finished /\ lastDone.branch = "verify") =>
            /\ ~lastDone.guardAtReturn
            /\ lastDone.nVerify = 1
    /\ \A rec \in {calls[c] : c \in Suspended} \cup
                  (IF Finished THEN {lastDone} ELSE {}) :
            ( /\ rec.status = Unauthorized
              /\ ~IsAuthCheckRequest(rec, Config(rec.inst).authCheckPattern)
              /\ ~rec.guardAtEntry )
            => rec.branch = "verify" /\ rec.nVerify = 1

\* C4 witness: one verification has settled and its invocation returned,
\* and a later 401 has started the second one.
C4_Witness ==
    /\ cycles = 2
    /\ Finished /\ lastDone.branch = "verify" /\ lastDone.verifier = "settled"
    /\ \E c \in Suspended : calls[c].verifier = "pending" /\ calls[c].nVerify = 1

\* C5: whatever branch an invocation took, its promise never resolves and
\* never rejects with the verifier's or the teardown's error: it rejects
\* with the invocation's own failure object.
C5_AlwaysRejectsOriginal ==
    Finished => RejectedWithOriginal(lastDone)

\* C5 witness: the teardown dispatch raised, and the original was rejected.
C5_Witness ==
    /\ Finished
    /\ lastDone.teardown = "raised"
    /\ RejectedWithOriginal(lastDone)

\* C6: when the verifier's result matches the fulfilled matcher (the session
\* is still valid), no teardown is dispatched, nothing is logged, no
\* navigation occurs, and the original 401 failure is rejected.
C6_ValidSessionNoTeardown ==
    /\ (Finished /\ lastDone.outcome.kind = "fulfilled") =>
            /\ lastDone.nLogout = 0 /\ lastDone.teardown = "none"
            /\ lastDone.nNav = 0
            /\ lastDone.logged = "none"
            /\ RejectedWithOriginal(lastDone)
    /\ \A c \in Suspended :
            calls[c].outcome.kind = "fulfilled" => calls[c].pc = "awaitVerify"

\* C6 witness: a verification reported a valid session and its invocation
\* has returned.
C6_Witness ==
    /\ Finished
    /\ lastDone.outcome.kind = "fulfilled"
    /\ lastDone.nVerify = 1
    /\ RejectedWithOriginal(lastDone)

\* The verifier's result was a rejection whose payload carries status 401.
ConfirmedInvalid(rec) ==
    rec.outcome.kind = "rejected" /\ rec.outcome.statusCode = Unauthorized

\* C7 as stated: after a rejection with status 401 the teardown is
\* dispatched exactly once, navigation to the configured login path occurs
\* exactly once unless the current location already is the login path, and
\* the original failure is rejected.
C7_Original ==
    (Finished /\ ConfirmedInvalid(lastDone)) =>
        /\ lastDone.nLogout = 1
        /\ lastDone.nNav =
              (IF lastDone.locAtTeardown = Config(lastDone.inst).loginPath THEN 0 ELSE 1)
        /\ lastDone.nNav = 1 => lastDone.navTo = Config(lastDone.inst).loginPath
        /\ RejectedWithOriginal(lastDone)

\* C7 as amended: after a rejection with status 401 the teardown is
\* dispatched exactly once and the original failure is rejected; navigation
\* to the configured login path occurs exactly once when the teardown
\* dispatch completed without raising, a window exists and its location is
\* not the login path, and does not occur otherwise.
C7_ConfirmedInvalidTearsDown ==
    (Finished /\ ConfirmedInvalid(lastDone)) =>
        /\ lastDone.nLogout = 1
        /\ lastDone.nNav =
              (IF /\ lastDone.teardown = "settled"
                  /\ lastDone.locAtTeardown # NoWindow
                  /\ lastDone.locAtTeardown # Config(lastDone.inst).loginPath
               THEN 1 ELSE 0)
        /\ lastDone.nNav = 1 => lastDone.navTo = Config(lastDone.inst).loginPath
        /\ lastDone.nNav = 0 => lastDone.navTo = "none"
        /\ RejectedWithOriginal(lastDone)

\* C7 witness: the custom interceptor tore the session down and navigated
\* to its own login path.
C7_Witness ==
    /\ Finished /\ ConfirmedInvalid(lastDone)
    /\ lastDone.inst = "custom"
    /\ lastDone.nLogout = 1 /\ lastDone.teardown = "settled"
    /\ lastDone.nNav = 1 /\ lastDone.navTo = "/auth/signin"

\* C8: a teardown dispatch or a navigation happens only in an invocation
\* whose verifier result is a rejection with payload status exactly 401: not
\* after a rejection with another status or none, not after a result that
\* matches neither matcher, not after a fulfilled or raised verification.
C8_TeardownOnlyOnRejected401 ==
    \A rec \in {calls[c] : c \in Suspended} \cup (IF Finished THEN {lastDone} ELSE {}) :
        (rec.nLogout > 0 \/ rec.teardown # "none" \/ rec.nNav > 0)
        => ConfirmedInvalid(rec)

\* C8 witness: the verifier rejected with status 500 and nothing was torn down.
C8_Witness ==
    /\ Finished
    /\ lastDone.outcome = [kind |-> "rejected", statusCode |-> "500"]
    /\ lastDone.nLogout = 0 /\ lastDone.nNav = 0

\* C9: when the verifier dispatch raises, by throwing or by a rejected
\* promise, the error is logged and nothing else: no teardown, no
\* navigation, the guard is false when the invocation returns, and the
\* original failure, not the verifier's error, is rejected.
C9_VerifierErrorOnlyLogged ==
    (Finished /\ (lastDone.verifier = "threw" \/ lastDone.outcome.kind = "raised")) =>
        /\ lastDone.logged = "verifier"
        /\ lastDone.nLogout = 0 /\ lastDone.teardown = "none"
        /\ lastDone.nNav = 0
        /\ ~lastDone.guardAtReturn
        /\ RejectedWithOriginal(lastDone)

\* C9 witness: the promise of the verifier dispatch rejected.
C9_Witness ==
    /\ Finished
    /\ lastDone.outcome.kind = "raised"
    /\ lastDone.logged = "verifier"
    /\ ~isCheckingAuth

\* C10: a 401 failure of the verifier's own request takes the early return:
\* no verifier dispatch, no other effect, the guard as it was (so false
\* throughout when it was false), the original failure rejected; and no
\* such failure is ever suspended in a verification.
C10_AuthCheckNeverRecurses ==
    /\ (Finished /\ lastDone.status = Unauthorized /\ TargetsVerifier(lastDone)) =>
            /\ lastDone.branch = "authCheck"
            /\ NoSideEffect(lastDone)
            /\ lastDone.guardAtReturn = lastDone.guardAtEntry
            /\ RejectedWithOriginal(lastDone)
    /\ \A c \in Suspended : ~TargetsVerifier(calls[c])

\* C10 witness: the verifier's own request failed with 401 while the guard
\* was false, and the guard is still false.
C10_Witness ==
    /\ Finished
    /\ lastDone.status = Unauthorized /\ TargetsVerifier(lastDone)
    /\ ~lastDone.guardAtEntry /\ ~isCheckingAuth
    /\ cycles = 0

\* C11 as stated: once a 401 failure of the burst has been handled, whether
\* verified or turned away, exactly one verifier dispatch has been made for
\* the whole burst, wherever the verifier's settlement falls between the
\* failures.
C11_Original ==
    (totalVerify > 0 \/ cycleSkipped > 0) => totalVerify = 1

\* C11 as amended: the 401 failures of a burst that arrive while a
\* verification is in flight share that verification: at most one verifier
\* dispatch is made per setting of the guard, exactly one has been made
\* while the guard is set, and the dispatches so far are as many as the
\* guard was set.  (A failure of the burst that arrives after the
\* settlement was handled starts a verification of its own.)
C11_OneVerificationPerCycle ==
    /\ cycleVerify <= 1
    /\ isCheckingAuth => cycleVerify = 1
    /\ totalVerify = cycles

\* C11 witness: a burst of three 401 failures, two of them arriving during
\* the verification the first one started, and one verifier dispatch in all.
C11_Witness ==
    /\ started = 3 /\ totalVerify = 1 /\ cycles = 1
    /\ cycleSkipped = 2
    /\ \E c \in Suspended : calls[c].verifier = "settled"

\* C12: as long as the verifier dispatch has not settled the guard is true
\* before and after every step, no step resets it, and every 401 failure
\* handled meanwhile is turned away: rejected with its own failure, with no
\* verifier dispatch, no teardown and no navigation.
C12_PendingVerifierPinsGuard ==
    [][ (\E c \in Calls : calls[c].verifier = "pending" /\ calls'[c].verifier = "pending")
        => /\ isCheckingAuth /\ isCheckingAuth'
           /\ (lastDone' # lastDone /\ lastDone'.status = Unauthorized
                                    /\ lastDone'.hook = "onRejected")
              => /\ lastDone'.branch \in {"busy", "authCheck"}
                 /\ NoSideEffect(lastDone')
                 /\ RejectedWithOriginal(lastDone')
                 /\ totalVerify' = totalVerify ]_vars

\* C12 witness: the first invocation's verifier dispatch is still pending
\* when the last invocation the bound allows has been turned away.
C12_Witness ==
    /\ \E c \in Calls : calls[c].verifier = "pending" /\ calls[c].id = 1
    /\ started = MaxCalls
    /\ lastDone.id = MaxCalls /\ lastDone.branch = "busy"
    /\ isCheckingAuth

\* C14: an invocation dispatches the verifier at most once (also after the
\* dispatch failed), the teardown at most once and navigates at most once;
\* and from one setting of the guard to the next, teardown and navigation
\* happen at most once each, however many failures arrive meanwhile.
C14_AtMostOnceEach ==
    /\ \A rec \in {calls[c] : c \in Suspended} \cup {lastDone} :
            rec.nVerify <= 1 /\ rec.nLogout <= 1 /\ rec.nNav <= 1
    /\ cycleVerify <= 1 /\ cycleLogout <= 1 /\ cycleNav <= 1
    /\ cycleNav <= cycleLogout

\* C14 witness: during one setting of the guard a 401 was turned away and
\* the session was torn down and the browser sent to the login path, once.
C14_Witness ==
    /\ cycles = 1 /\ cycleSkipped >= 1
    /\ cycleLogout = 1 /\ cycleNav = 1
    /\ Finished /\ lastDone.nLogout = 1 /\ lastDone.nNav = 1

\* C13: the success hook settles with the very response it was given, never
\* with a rejection, and causes nothing: no verifier dispatch, no teardown,
\* no navigation, nothing logged, and the guard it leaves is the guard it
\* found, also while a verification is in flight.
C13_SuccessPassesThrough ==
    (lastDone.pc = "done" /\ lastDone.hook = "onFulfilled")
        => /\ lastDone.result.kind = "fulfilled"
           /\ lastDone.result.src = "response"
           /\ lastDone.result.call = lastDone.id
           /\ NoSideEffect(lastDone)
           /\ lastDone.guardAtReturn = lastDone.guardAtEntry

\* C13 witness: a success passed through the hook while another request's
\* verification was in flight.
C13_Witness ==
    /\ lastDone.pc = "done" /\ lastDone.hook = "onFulfilled"
    /\ lastDone.inst \in Interceptors
    /\ lastDone.guardAtEntry /\ isCheckingAuth
    /\ ActiveVerifications # {}

\* lastDone is a finished failure-hook invocation of the interceptor that was
\* configured with dispatch, navigate and isAuthenticated.
FinishedCallbacks ==
    /\ lastDone.pc = "done"
    /\ lastDone.inst = HostCallbacks
    /\ lastDone.hook = "onRejected"

\* C15 as stated: on a 401 failure while isAuthenticated() returns true, the
\* hook of an interceptor configured with dispatch, navigate and
\* isAuthenticated dispatches the logout action once, navigates once to the
\* configured login path, and rejects with the original error.
C15_Claim ==
    (FinishedCallbacks /\ lastDone.status = Unauthorized /\ lastDone.authed)
        => /\ lastDone.nLogout = 1
           /\ lastDone.nNav = 1
           /\ lastDone.navTo = Config(HostCallbacks).loginPath
           /\ RejectedWithOriginal(lastDone)

\* C16: on a 401 failure while isAuthenticated() returns false, the hook of
\* an interceptor configured with dispatch, navigate and isAuthenticated
\* dispatches nothing, navigates nowhere and rejects with the original error.
C16_UnauthenticatedNoTeardown ==
    (FinishedCallbacks /\ lastDone.status = Unauthorized /\ ~lastDone.authed)
        => /\ lastDone.nVerify = 0
           /\ lastDone.nLogout = 0
           /\ lastDone.nNav = 0 /\ lastDone.navTo = "none"
           /\ RejectedWithOriginal(lastDone)

\* C16 witness: such a 401 went past the three early returns with the guard
\* free, and the error raised inside the try block was caught and logged.
C16_Witness ==
    /\ FinishedCallbacks
    /\ lastDone.status = Unauthorized /\ ~lastDone.authed
    /\ lastDone.branch = "verify" /\ ~lastDone.guardAtEntry
    /\ lastDone.logged = "verifier"

(***************************************************************************)
(* Properties of processStoreError.                                        *)
(***************************************************************************)

\* The call of processStoreError has ended.
Processed == processed.state # "none"

\* The input is an AxiosError that carries a response.
AxiosWithResponse == errIn.kind = "AxiosError" /\ errIn.response.present

\* The input is an AxiosError without response.
AxiosWithoutResponse == errIn.kind = "AxiosError" /\ ~errIn.response.present

\* The response body has a message that is a non-empty string.
BodyHasMessage ==
    /\ errIn.response.data.t = "object"
    /\ errIn.response.data.message.t = "string"
    /\ errIn.response.data.message.s # EmptyString

\* The failure's own message, or the generic text when that is empty.
OwnMessageOrGeneric ==
    IF errIn.message.s # EmptyString THEN errIn.message
    ELSE Str(ServerCommunicationMessage)

\* C17: processStoreError is total: whatever the input (null, undefined, a
\* boolean, a number, a string, also empty or blank, a plain object with or
\* without message, statusCode and data, an Error, an AxiosError with or
\* without response) the call returns a record and raises nothing; for
\* null, undefined, "" and {} the record has statusCode 0 and the generic
\* fallback message.
C17_ProcessStoreErrorTotal ==
    Processed
        => /\ processed.state = "returned"
           /\ processed.originalError = errIn
           /\ (errIn \in { Primitive("null"), Primitive("undefined"),
                          Value("string", EmptyString, Absent, Absent, NoBody, NoResponseObject),
                          Value("object", EmptyString, Absent, Absent, NoBody, NoResponseObject) })
              => /\ processed.statusCode = 0
                 /\ processed.message = Str(UnexpectedErrorMessage)

\* C17 witness: the call was given null and returned.
C17_Witness ==
    /\ Processed /\ errIn.kind = "null"
    /\ processed.state = "returned" /\ processed.statusCode = 0

C19_Claim ==
    (Processed /\ AxiosWithResponse
       /\ (errIn.response.data.t = "null"
           \/ (errIn.response.data.t = "object" /\ errIn.response.data.message.t = "absent")))
        => processed.message = Str(errIn.response.statusText)

\* C20: for an AxiosError without response the record has statusCode 0, as
\* message the failure's own message (the generic text when that is empty),
\* and isNetworkError holds of it; isNetworkError holds of no record that
\* was made from something else than an AxiosError or has a non-zero status.
C20_NetworkError ==
    /\ (Processed /\ AxiosWithoutResponse)
        => /\ processed.state = "returned"
           /\ processed.statusCode = 0
           /\ processed.message = OwnMessageOrGeneric
           /\ isNetworkError(processed)
    /\ (processed.state = "returned"
          /\ (errIn.kind # "AxiosError" \/ processed.statusCode # 0))
        => ~isNetworkError(processed)

\* C20 witness: an AxiosError without response and with an empty message
\* was classified as a network error with the generic text.
C20_Witness ==
    /\ Processed /\ AxiosWithoutResponse
    /\ errIn.message = Str(EmptyString)
    /\ processed.message = Str(ServerCommunicationMessage)
    /\ isNetworkError(processed)

\* getUserFriendlyMessage has returned.
Asked == friendly # NoFriendly

\* C21: for every record processStoreError returns, getUserFriendlyMessage
\* returns the connection sentence for a network error, else the
\* session-expired sentence for status 401, else the permission sentence
\* for 403, else the form sentence for 422, else the server sentence for a
\* status of 500 or more, and the record's own message exactly when none of
\* these holds; a record with status 403 has isAuthorizationError true and
\* isAuthError false.
C21_FriendlyMessageByPriority ==
    /\ Asked =>
        friendly =
            IF processed.isAxiosError /\ processed.statusCode = 0 THEN Str(NetworkSentence)
            ELSE IF processed.statusCode = 401 THEN Str(SessionExpiredSentence)
            ELSE IF processed.statusCode = 403 THEN Str(PermissionSentence)
            ELSE IF processed.statusCode = 422 THEN Str(ValidationSentence)
            ELSE IF processed.statusCode >= 500 THEN Str(ServerSentence)
            ELSE processed.message
    /\ (Asked /\ ~(\/ isNetworkError(processed) \/ isAuthError(processed)
                   \/ isAuthorizationError(processed) \/ isValidationError(processed)
                   \/ isServerError(processed)))
        => friendly = processed.message
    /\ (processed.state = "returned" /\ processed.statusCode = 403)
        => isAuthorizationError(processed) /\ ~isAuthError(processed)
    /\ (processed.state = "returned" /\ processed.statusCode = 401)
        => isAuthError(processed) /\ ~isAuthorizationError(processed)

\* C21 witness: a record with status 403 was given the permission sentence,
\* although its own message is another text.
C21_Witness ==
    /\ Asked /\ processed.statusCode = 403
    /\ processed.message = Str(ValidationFailedText)
    /\ friendly = Str(PermissionSentence)

\* The message the tests expect for an input of unrecognized shape.
UnknownErrorText == <<"An unknown error occurred">>

\* C22 as stated: for a plain object with none of message, statusCode and
\* data the record is exactly {message: 'An unknown error occurred',
\* statusCode: 0, data: null}; and for an Error, a non-blank string and an
\* AxiosError without response the record has data null and only the fields
\* message, statusCode and data.
C22_Claim ==
    /\ (Processed /\ errIn = Value("object", EmptyString, Absent, Absent, NoBody, NoResponseObject))
        => /\ processed.message = Str(UnknownErrorText)
           /\ processed.statusCode = 0
           /\ processed.data = Body("null", Absent)
           /\ ReturnedFields = {"message", "statusCode", "data"}
    /\ (Processed /\ (\/ errIn.kind = "Error"
                      \/ (errIn.kind = "string" /\ Trim(errIn.str) # EmptyString)
                      \/ AxiosWithoutResponse))
        => /\ processed.data = Body("null", Absent)
           /\ ReturnedFields = {"message", "statusCode", "data"}

\* C23: the guard is a two-state latch.  A step takes it from false to true
\* only if in that step an invocation of the failure hook entered with a
\* 401 on a request that is not the verifier's, found the guard false and
\* was suspended in the verifier dispatch.  A step takes it from true to
\* false only if in that step that invocation, resumed after the
\* settlement of its dispatch, finished; no other invocation is suspended
\* before or after, so no call resets a guard another call set.
C23_GuardIsLatch ==
    [][ /\ (~isCheckingAuth /\ isCheckingAuth')
            => \E c \in Calls :
                /\ calls[c].pc = "idle" /\ calls'[c].pc = "awaitVerify"
                /\ calls'[c].hook = "onRejected"
                /\ calls'[c].status = Unauthorized
                /\ ~TargetsVerifier(calls'[c])
                /\ ~calls'[c].guardAtEntry
                /\ Suspended' = {c}
        /\ (isCheckingAuth /\ ~isCheckingAuth')
            => \E c \in Calls :
                /\ Suspended = {c} /\ Suspended' = {}
                /\ calls[c].verifier = "settled"
                /\ ~calls[c].guardAtEntry
                /\ lastDone'.id = c /\ lastDone'.branch = "verify"
                /\ lastDone'.pc = "done" ]_vars

\* C23 witness: an invocation set the guard, another 401 was turned away
\* meanwhile, and the first invocation has reset the guard on finishing.
C23_Witness ==
    /\ ~isCheckingAuth /\ cycles = 1 /\ cycleSkipped = 1
    /\ Finished /\ lastDone.branch = "verify" /\ lastDone.id = 1
    /\ lastDone.verifier = "settled" /\ ~lastDone.guardAtEntry
    /\ started = 2

\* C24: an invocation has navigated only if its failure was a 401 that went
\* to verification, the verifier settled with a rejection carrying status
\* 401, the teardown dispatch was made and has settled without raising, a
\* window exists and its location differed from the configured login path,
\* which is where it navigated; an invocation still suspended in either
\* dispatch has not navigated; and no navigation happens in a cycle without
\* a teardown dispatch.
C24_NavigationOnlyAfterTeardown ==
    /\ (Finished /\ lastDone.nNav > 0)
        => /\ lastDone.status = Unauthorized
           /\ lastDone.branch = "verify"
           /\ lastDone.verifier = "settled"
           /\ lastDone.outcome = [kind |-> "rejected", statusCode |-> Unauthorized]
           /\ lastDone.nLogout = 1 /\ lastDone.teardown = "settled"
           /\ lastDone.locAtTeardown # NoWindow
           /\ lastDone.locAtTeardown # Config(lastDone.inst).loginPath
           /\ lastDone.navTo = Config(lastDone.inst).loginPath
           /\ lastDone.nNav = 1
    /\ (lastDone.pc = "done" /\ lastDone.inst \notin Interceptors) => lastDone.nNav = 0
    /\ \A c \in Suspended : calls[c].nNav = 0 /\ calls[c].navTo = "none"
    /\ cycleNav > 0 => cycleLogout = 1

\* C24 witness: an interceptor with a login path of its own navigated there
\* from the default login path, after teardown.
C24_Witness ==
    /\ Finished /\ lastDone.inst = "custom"
    /\ lastDone.nNav = 1 /\ lastDone.navTo = "/auth/signin"
    /\ lastDone.locAtTeardown = DefaultLoginPath
    /\ lastDone.teardown = "settled"

\* The failure-hook invocations of the createAuthInterceptor interceptors
\* that the state holds detail of.
Recorded ==
    {calls[c] : c \in Suspended} \cup (IF Finished THEN {lastDone} ELSE {})

\* The pattern of the record's interceptor occurs in its url.
UrlHasPattern(rec) ==
    \/ rec.inst = "default" /\ rec.url \in {UrlMeCheck, UrlMeCheckout}
    \/ rec.inst = "custom" /\ rec.url = UrlAuthVerify

\* C25 as stated: every 401 failure whose request is not the verifier's and
\* that finds the guard false goes to verification with one verifier
\* dispatch: the matcher excludes the verifier's own requests and no others.
C25_Original ==
    \A rec \in Recorded :
        (rec.status = Unauthorized /\ ~rec.guardAtEntry /\ ~TargetsVerifier(rec))
            => rec.branch = "verify" /\ rec.nVerify = 1

\* C25 as amended: every 401 failure in whose url the pattern does not
\* occur, a failure without request config or url among them, and that
\* finds the guard false sets the guard and dispatches the verifier exactly
\* once; every 401 failure in whose url the pattern occurs, be it the
\* verifier's own request or not, is excluded.
C25_QualifyingFailureVerifies ==
    \A rec \in Recorded :
        /\ (rec.status = Unauthorized /\ ~rec.guardAtEntry /\ ~UrlHasPattern(rec))
            => /\ rec.branch = "verify" /\ rec.nVerify = 1
               /\ rec.pc = "awaitVerify" => isCheckingAuth
        /\ (rec.status = Unauthorized /\ UrlHasPattern(rec))
            => rec.branch = "authCheck" /\ rec.nVerify = 0
        /\ rec.branch = "authCheck" => UrlHasPattern(rec)

\* C25 witness: a 401 without request config is suspended in the verifier
\* dispatch it made, and a 401 of '/api/me/checkout' was excluded before.
C25_Witness ==
    /\ \E c \in Suspended :
            /\ calls[c].url = NoUrl /\ calls[c].status = Unauthorized
            /\ calls[c].pc = "awaitVerify" /\ calls[c].nVerify = 1
    /\ isCheckingAuth
    /\ Finished /\ lastDone.url = UrlMeCheckout /\ lastDone.branch = "authCheck"
    /\ ~lastDone.guardAtEntry

\* C26 as stated: when an authInterceptor is supplied, one exchange that
\* fails with status 401 on either client passes through the failure hook
\* exactly once, and so causes at most one verifier dispatch, at most one
\* teardown dispatch and at most one navigation.
C26_Claim ==
    (client.exchange = "settled" /\ client.status = Unauthorized
       /\ client.handlers[client.via] > 0)
        => /\ client.hookCalls = 1
           /\ client.nVerify <= 1
           /\ client.nLogout <= 1
           /\ client.nNav <= 1

\* C27: if the verifier dispatch and the teardown dispatch each settle,
\* every invocation of the failure hook that is suspended eventually
\* settles; an invocation is suspended only in the await of the verifier
\* dispatch or in the await of the teardown dispatch, and only a 401 that
\* is not of the verifier's request and found the guard false is ever
\* suspended: the other branches settle in the step that invoked them;
\* what an invocation settles with is a rejection.  (At most one invocation
\* is suspended at a time, so "the suspended invocation settles" is: the
\* set of suspended invocations becomes empty.)
C27_EveryCallSettles ==
    /\ [](\A c \in Calls :
            /\ calls[c].pc \in {"idle", "awaitVerify", "awaitLogout", "done"}
            /\ calls[c].pc \in {"awaitVerify", "awaitLogout"}
                => /\ calls[c].status = Unauthorized
                   /\ calls[c].branch = "verify"
                   /\ ~TargetsVerifier(calls[c])
                   /\ ~calls[c].guardAtEntry
                   /\ calls[c].nVerify = 1)
    /\ [](lastDone.pc = "done" /\ lastDone.hook = "onRejected"
            => lastDone.result.kind = "rejected")
    /\ \A c \in Calls : [](c \in Suspended => Suspended = {c})
    /\ (Suspended # {}) ~> (Suspended = {})

\* C27 witness: an invocation that was suspended in both awaits has settled
\* with a rejection, and nothing is suspended any more.
C27_Witness ==
    /\ Finished /\ lastDone.verifier = "settled" /\ lastDone.teardown = "raised"
    /\ lastDone.result.kind = "rejected"
    /\ Suspended = {}
    /\ started = MaxFairCalls /\ cycleSkipped = 1

\* C28: the guard is true as long as the invocation that set it is
\* suspended, in the verifier dispatch and in the teardown dispatch alike;
\* a 401 failure that arrives while an invocation is suspended in the
\* teardown dispatch, whatever its request, finds the guard true and is
\* turned away with its own failure: no verification and no second
\* teardown are started, so the cycle keeps its one dispatch of each.
C28_GuardHeldThroughTeardown ==
    /\ \A c \in Suspended : isCheckingAuth
    /\ (lastDone.pc = "done" /\ lastDone.hook = "onRejected"
          /\ lastDone.during = "awaitLogout" /\ lastDone.status = Unauthorized)
        => /\ lastDone.guardAtEntry /\ lastDone.guardAtReturn
           /\ lastDone.branch \in {"busy", "authCheck"}
           /\ NoSideEffect(lastDone)
           /\ RejectedWithOriginal(lastDone)
    /\ (\E c \in Calls : calls[c].pc = "awaitLogout")
        => cycleVerify = 1 /\ cycleLogout = 1 /\ cycleNav = 0

\* C28 witness: while an invocation is still suspended in the teardown
\* dispatch, a 401 that arrived during that suspension has been turned away.
C28_Witness ==
    /\ \E c \in Calls : calls[c].pc = "awaitLogout" /\ calls[c].teardown = "pending"
    /\ Finished /\ lastDone.during = "awaitLogout"
    /\ lastDone.status = Unauthorized /\ lastDone.branch = "busy"
    /\ isCheckingAuth

\* C29: when the teardown dispatch raises, in the dispatching call or when
\* awaited, after the verifier settled with a rejected 401: the error is
\* logged, no navigation is made, the guard is false when the call returns
\* and the call rejects with the original failure.
C29_TeardownErrorCaught ==
    (Finished /\ lastDone.teardown \in {"threw", "raised"})
        => /\ lastDone.outcome = [kind |-> "rejected", statusCode |-> Unauthorized]
           /\ lastDone.nLogout = 1
           /\ lastDone.logged = "teardown"
           /\ lastDone.nNav = 0 /\ lastDone.navTo = "none"
           /\ ~lastDone.guardAtReturn
           /\ RejectedWithOriginal(lastDone)

\* C29 witness: the awaited teardown dispatch rejected while the location
\* was not the login path, and the call returned without navigating.
C29_Witness ==
    /\ Finished /\ lastDone.teardown = "raised"
    /\ lastDone.locAtTeardown = "/dashboard"
    /\ lastDone.nNav = 0 /\ lastDone.logged = "teardown"
    /\ ~isCheckingAuth /\ location = "/dashboard"

\* C30: the guard is one flag for all interceptors.  Across the instances
\* of createAuthInterceptor and the legacy interceptor together at most one
\* invocation is suspended and at most one verifier dispatch is pending; a
\* 401 failure that an instance's hook is given while an invocation of
\* another instance is suspended is turned away without any effect; and
\* the legacy failure hook always leaves the guard as it found it,
\* dispatches nothing, navigates nowhere and rejects with the original
\* failure.
C30_GuardSharedByAllInstances ==
    /\ Cardinality(Suspended) <= 1
    /\ Cardinality(ActiveVerifications) <= 1
    /\ (lastDone.pc = "done" /\ lastDone.hook = "onRejected"
          /\ lastDone.status = Unauthorized /\ lastDone.during # "none")
        => /\ lastDone.guardAtEntry
           /\ lastDone.branch \in {"busy", "authCheck"}
           /\ lastDone.nVerify = 0 /\ lastDone.nLogout = 0 /\ lastDone.nNav = 0
           /\ RejectedWithOriginal(lastDone)
    /\ (lastDone.pc = "done" /\ lastDone.hook = "onRejected" /\ lastDone.inst = Legacy)
        => /\ lastDone.guardAtReturn = lastDone.guardAtEntry
           /\ NoSideEffect(lastDone)
           /\ RejectedWithOriginal(lastDone)

\* C30 witness: the legacy hook turned a qualifying 401 away while an
\* invocation of a createAuthInterceptor instance was suspended in its
\* verifier dispatch, and left the guard set.
C30_Witness ==
    /\ \E c \in Suspended : calls[c].inst = "custom" /\ calls[c].pc = "awaitVerify"
    /\ lastDone.pc = "done" /\ lastDone.inst = Legacy /\ lastDone.hook = "onRejected"
    /\ lastDone.status = Unauthorized /\ lastDone.url = UrlUsers
    /\ lastDone.branch = "busy" /\ lastDone.during = "awaitVerify"
    /\ isCheckingAuth

====
